---- MODULE Spec2Model ----
(***************************************************************************)
(* Batch Job Engine of PromptStudio (app/services/batch_service.py), its    *)
(* TokenBucket under concurrent callers (SpecBucket) and the Prompt Chain  *)
(* Engine (app/services/prompt_chain_service.py, SpecChain).               *)
(*                                                                         *)
(* One BatchService instance.  A job is created, run (one asyncio task per *)
(* pending item, fanned in by asyncio.gather), cancelled and rerun; the    *)
(* batch routes add the deletion of a job from the registry (SpecRoutes). *)
(* SpecSchema adds jobs whose output_schema is unknown, SpecProgress the   *)
(* consumers of stream_progress, SpecGatewayReturns a fair event loop with *)
(* a gateway that always answers, SpecStream the stream_execute generator. *)
(* Every action is one atomic stretch of a coroutine between two           *)
(* suspension points (await of the semaphore, of the token-bucket lock, of *)
(* a sleep, of the gateway call, of gather).                               *)
(*                                                                         *)
(* Time is kept relative: the token bucket stores the time elapsed since   *)
(* its last refill, a sleeping bucket holder stores the time left to       *)
(* sleep.  One time unit is 60 / (rate_limit_per_minute * TicksPerToken)   *)
(* seconds, and the token balance is counted in 1/TicksPerToken tokens, so *)
(* fractional balances are represented exactly.                            *)
(***************************************************************************)
EXTENDS Integers, Sequences, FiniteSets, TLC

\* ---------------------------------------------------------------- bounds
\* items of the job: 0..MaxItems
MaxItems == 3
\* config.max_concurrency: 1..MaxConcurrency
MaxConcurrency == 2
\* config.retry_attempts: 0..MaxRetry
MaxRetry == 1
\* config.rate_limit_per_minute: 1..MaxRate
MaxRate == 2
\* accepted run_job calls on the job
MaxRuns == 2
\* clock resolution: time units per token of refill
TicksPerToken == 2

\* config.rate_limit_per_minute of the bucket shared by callers: 1..MaxBucketRate
MaxBucketRate == 3
\* concurrent callers of one bucket's acquire()
MaxCallers == 5
\* steps of a chain: 0..MaxSteps
MaxSteps == 3

JobIds == {"j1"}
\* values of config.retry_delay_seconds
RetryDelays == {3}

VARIABLES
  _jobs,            \* BatchService._jobs: the registered job ids
  job,              \* the BatchJob objects, by id (live while a run holds one)
  _cancel_flags,    \* BatchService._cancel_flags
  _semaphore_map,   \* BatchService._semaphore_map: free permits of the run's semaphore
  _rate_limiters,   \* BatchService._rate_limiters: the run's TokenBucket
  run,              \* the run_job coroutine of each job: pc, pending_items
  task,             \* the _process_item coroutines of the job's current run, by item id
  run_result,       \* how the last accepted run_job call of the job ended
  nruns,            \* number of accepted run_job calls (the source of timestamps)
  last_call,        \* the run_job call made or returned in the last step, with its outcome
  bucket,           \* a TokenBucket shared by concurrent callers of acquire()
  caller,           \* the acquire() coroutines on that bucket, by caller
  acquired,         \* the age of every acquire() completed less than 60 s ago
  chain,            \* the ChainDefinition handed to execute_chain
  context,          \* execute_chain's context dict
  step_results,     \* the results list of the running _execute_* method
  chain_run,        \* the execute_chain coroutine: pc, current step or level
  step_task,        \* the _execute_step coroutines in flight, by step position
  chain_result,     \* the ChainExecutionResult returned by execute_chain
  progress_stream   \* the stream_progress generator of each job: pc, last_progress, last snapshot

batch_vars == <<_jobs, job, _cancel_flags, _semaphore_map, _rate_limiters, run, task,
                run_result, nruns, last_call, progress_stream>>
bucket_vars == <<bucket, caller, acquired>>
chain_vars == <<chain, context, step_results, chain_run, step_task, chain_result>>

vars == <<batch_vars, bucket_vars, chain_vars>>

\* what an action of the batch engine leaves alone
outside_batch == <<bucket_vars, chain_vars, progress_stream>>

\* ---------------------------------------------------------------- helpers
Min(a, b) == IF a < b THEN a ELSE b
Max(a, b) == IF a > b THEN a ELSE b

RECURSIVE Pow2(_)
Pow2(k) == IF k = 0 THEN 1 ELSE 2 * Pow2(k - 1)

RECURSIVE SelectCount(_, _)
\* len([r for r in results if r.status == st])
SelectCount(results, st) ==
  IF results = <<>> THEN 0
  ELSE (IF Head(results).status = st THEN 1 ELSE 0) + SelectCount(Tail(results), st)

RECURSIVE SumTokens(_)
SumTokens(results) ==
  IF results = <<>> THEN 0 ELSE Head(results).tokens_used + SumTokens(Tail(results))

\* an error message: the text and, for a gateway failure, the attempt that raised it
Err(msg, a) == [msg |-> msg, attempt |-> a]
NoError == Err("None", 0)
JobCancelled == Err("Job cancelled", 0)
GatewayError(a) == Err("gateway error", a)
SchemaError(a) == Err("Unknown output schema", a)

\* ---------------------------------------------------------------- data model
\* the keys of schema_map in _process_structured
SchemaMap ==
  {"PromptAnalysis", "PromptRefinement", "TranslationResult", "SafetyCheck", "CostPrediction"}

\* output_schema is None (written "") in BatchConfigs, and None or a name
\* that schema_map does not hold in SchemaConfigs
ConfigsWith(schemas) ==
  [max_concurrency : 1..MaxConcurrency,
   rate_limit_per_minute : 1..MaxRate,
   retry_attempts : 0..MaxRetry,
   retry_delay_seconds : RetryDelays,
   stop_on_error : BOOLEAN,
   output_schema : schemas]

BatchConfigs == ConfigsWith({""})

SchemaConfigs == ConfigsWith({"", "NoSuchSchema"})

\* _process_structured is called and finds no model class for the name
UnknownSchema(config) == config.output_schema # "" /\ config.output_schema \notin SchemaMap

\* BatchJob(name, items, config): the defaults of the model class
BatchJob(items, config) ==
  [status |-> "pending", items |-> items, config |-> config, results |-> <<>>,
   started_at |-> 0, completed_at |-> 0, progress |-> <<0, 1>>,
   total_tokens |-> 0, error |-> NoError]

BatchItemResult(item_id, status, error, tokens_used, retry_count) ==
  [item_id |-> item_id, status |-> status, error |-> error,
   tokens_used |-> tokens_used, retry_count |-> retry_count]

\* what an item task ended with: nothing yet, a returned result, a raised exception
NoOutcome == [kind |-> "none", value |-> BatchItemResult(0, "pending", NoError, 0, 0)]
Returned(r) == [kind |-> "value", value |-> r]
\* the result slot carries str(e) of the raised exception in its error field
Raised(item_id, e) == [kind |-> "exception", value |-> BatchItemResult(item_id, "failed", e, 0, 0)]

\* a _process_item coroutine before its first step
NewTask ==
  [pc |-> "wait_sem", attempt |-> 0, retry_count |-> 0, last_error |-> NoError,
   outcome |-> NoOutcome,
   calls |-> 0, sleeps |-> <<>>, flag_at_admission |-> FALSE]

\* ---------------------------------------------------------------- TokenBucket
\* TokenBucket.__init__
TokenBucket(tokens_per_minute) ==
  [tokens_per_minute |-> tokens_per_minute,
   tokens |-> tokens_per_minute * TicksPerToken,
   elapsed |-> 0,       \* time.time() - last_refill
   locked_by |-> 0,     \* item holding _lock, 0 when free
   sleep_left |-> 0,    \* remaining time of the holder's asyncio.sleep(wait_time)
   debited |-> 0]       \* acquire() completions

\* a refill without the cap at tokens_per_minute
Refill_nocap(b) == [b EXCEPT !.tokens = b.tokens + b.elapsed, !.elapsed = 0]

\* TokenBucket._refill
Refill(b) ==
  [b EXCEPT !.tokens = Min(b.tokens_per_minute * TicksPerToken, b.tokens + b.elapsed),
            !.elapsed = 0]

\* TokenBucket.acquire from the point where _lock is held by item i, up to the
\* next suspension point: either the debit (lock released) or a sleep of
\* wait_time = 60 / tokens_per_minute, which is TicksPerToken time units
AcquireStep(b, i) ==
  LET r == Refill(b) IN
  IF r.tokens < TicksPerToken
  THEN [r EXCEPT !.locked_by = i, !.sleep_left = TicksPerToken]
  ELSE [r EXCEPT !.tokens = @ - TicksPerToken, !.locked_by = 0, !.sleep_left = 0,
                 !.debited = @ + 1]

\* ---------------------------------------------------------------- run_job pieces
\* a state check that only refuses a running job
CanStart_notrunning(status) == status # "running"

\* run_job's state check
CanStart(status) == status \in {"pending", "partial"}

\* asyncio.Semaphore(job.config.max_concurrency)
Semaphore(config) == config.max_concurrency

\* pending_items without the filter on existing results
PendingItems_all(jb) == jb.items

\* pending_items: the items without a result, in item order
PendingItems(jb) ==
  SelectSeq(jb.items, LAMBDA it : \A k \in 1..Len(jb.results) : jb.results[k].item_id # it)

\* self._cancel_flags.get(job_id)
CancelFlag(flags, j) == j \in DOMAIN flags /\ flags[j]

\* final status that never reports partial
FinalStatus_nopartial(results, cancelled) ==
  LET failed_count == SelectCount(results, "failed") IN
  IF cancelled THEN "cancelled"
  ELSE IF failed_count = 0 THEN "completed"
  ELSE "failed"

\* "Determine final status"
FinalStatus(results, cancelled) ==
  LET failed_count == SelectCount(results, "failed") IN
  IF cancelled THEN "cancelled"
  ELSE IF failed_count = 0 THEN "completed"
  ELSE IF failed_count = Len(results) THEN "failed"
  ELSE "partial"

\* "Process results": one appended result per pending item, in pending order
RECURSIVE GatherResults(_, _)
GatherResults(pending, tk) ==
  IF pending = <<>> THEN <<>>
  ELSE <<tk[Head(pending)].outcome.value>> \o GatherResults(Tail(pending), tk)

\* run_job after gather has returned
Finish(jb, pending, tk, cancelled, now) ==
  LET results == jb.results \o GatherResults(pending, tk) IN
  [jb EXCEPT !.results = results,
             !.status = FinalStatus(results, cancelled),
             !.completed_at = now,
             !.progress = <<1, 1>>,
             !.total_tokens = @ + SumTokens(results)]

Call(op, j, result) == [op |-> op, id |-> j, result |-> result]
NoCall == Call("", "", "")

\* ---------------------------------------------------------------- actions
\* BatchService.create_job: a fresh id, so once per id
create_job(j, n, config) ==
  /\ j \notin DOMAIN job
  /\ job' = (j :> BatchJob([k \in 1..n |-> k], config)) @@ job
  /\ _jobs' = _jobs \cup {j}
  /\ _cancel_flags' = (j :> FALSE) @@ _cancel_flags
  /\ last_call' = NoCall
  /\ UNCHANGED <<_semaphore_map, _rate_limiters, run, task, run_result, nruns>>
  /\ UNCHANGED outside_batch

\* BatchService.cancel_job
cancel_job(j) ==
  /\ IF j \notin _jobs
     THEN UNCHANGED <<job, _cancel_flags>>
     ELSE /\ _cancel_flags' = [_cancel_flags EXCEPT ![j] = TRUE]
          /\ job' = [job EXCEPT ![j].status =
                        IF @ = "running" THEN "cancelled" ELSE @]
  /\ last_call' = NoCall
  /\ UNCHANGED <<_jobs, _semaphore_map, _rate_limiters, run, task, run_result, nruns>>
  /\ UNCHANGED outside_batch

\* BatchService.run_job up to its await of gather; with nothing pending the
\* gather of no tasks does not suspend and the call runs to its return
run_job(j) ==
  /\ UNCHANGED outside_batch
  /\ IF j \notin _jobs
     THEN /\ last_call' = Call("run_job", j, "NotFound")
          /\ UNCHANGED <<_jobs, job, _cancel_flags, _semaphore_map, _rate_limiters,
                         run, task, run_result, nruns>>
     ELSE IF ~CanStart(job[j].status)
     THEN /\ last_call' = Call("run_job", j, "InvalidState")
          /\ UNCHANGED <<_jobs, job, _cancel_flags, _semaphore_map, _rate_limiters,
                         run, task, run_result, nruns>>
     ELSE
       LET started == [job[j] EXCEPT !.status = "running", !.started_at = nruns + 1]
           pending == PendingItems(started)
       IN
       /\ nruns < MaxRuns
       /\ nruns' = nruns + 1
       /\ last_call' = Call("run_job", j, "accepted")
       /\ task' = [task EXCEPT ![j] = [i \in {pending[k] : k \in 1..Len(pending)} |-> NewTask]]
       /\ UNCHANGED <<_jobs, _cancel_flags>>
       /\ IF pending = <<>>
          THEN /\ job' = [job EXCEPT ![j] =
                            Finish(started, pending, task'[j], CancelFlag(_cancel_flags, j), nruns + 1)]
               /\ run' = [run EXCEPT ![j] = [pc |-> "idle", pending_items |-> <<>>]]
               /\ run_result' = [run_result EXCEPT ![j] = "returned"]
               /\ UNCHANGED <<_semaphore_map, _rate_limiters>>
          ELSE /\ job' = [job EXCEPT ![j] = started]
               /\ run' = [run EXCEPT ![j] = [pc |-> "gather", pending_items |-> pending]]
               /\ run_result' = [run_result EXCEPT ![j] = "none"]
               /\ _semaphore_map' = (j :> Semaphore(started.config)) @@ _semaphore_map
               /\ _rate_limiters' =
                    (j :> TokenBucket(started.config.rate_limit_per_minute)) @@ _rate_limiters

\* ---------------------------------------------------------------- _process_item
\* _process_item from the point where the permit is held and the job is not
\* cancelled: rate_limiter.acquire() and, once the token is debited, the first
\* pass of the retry loop up to its gateway call.  An arriving task queues
\* behind the lock's holder and behind the tasks already waiting for the lock
EnterBucket(t, b, i, queued) ==
  IF (b.locked_by # 0 /\ b.locked_by # i) \/ queued
  THEN <<[t EXCEPT !.pc = "wait_lock"], b>>
  ELSE LET nb == AcquireStep(b, i) IN
       IF nb.locked_by = i
       THEN <<[t EXCEPT !.pc = "rl_sleep"], nb>>
       ELSE <<[t EXCEPT !.pc = "call", !.attempt = 0, !.calls = @ + 1], nb>>

\* an item task that does not look at the cancel flag
SkipCancelled_never(flags, j) == FALSE

\* the cancellation check made right after the permit is acquired
SkipCancelled(flags, j) == CancelFlag(flags, j)

\* an except block that keeps the first error message instead of the last
ExceptBlock_firsterror(t, config) ==
  LET failed == [t EXCEPT !.last_error = IF @ = NoError THEN GatewayError(t.attempt) ELSE @,
                          !.retry_count = t.attempt] IN
  IF t.attempt < config.retry_attempts
  THEN [failed EXCEPT !.pc = "backoff",
                      !.sleeps = Append(@, config.retry_delay_seconds * Pow2(t.attempt))]
  ELSE [failed EXCEPT !.pc = "failed_attempt"]

\* the except block of the retry loop, up to its sleep
ExceptBlock(t, config) ==
  LET e == IF UnknownSchema(config) THEN SchemaError(t.attempt) ELSE GatewayError(t.attempt)
      failed == [t EXCEPT !.last_error = e, !.retry_count = t.attempt] IN
  IF t.attempt < config.retry_attempts
  THEN [failed EXCEPT !.pc = "backoff",
                      !.sleeps = Append(@, config.retry_delay_seconds * Pow2(t.attempt))]
  ELSE [failed EXCEPT !.pc = "failed_attempt"]

\* the rest of a failed pass of the loop: the stop_on_error raise, the next
\* attempt, or the FAILED result after the loop
AfterExcept(t, i, config) ==
  IF config.stop_on_error
  THEN [t EXCEPT !.pc = "done", !.outcome = Raised(i, t.last_error)]
  ELSE IF t.attempt < config.retry_attempts
  THEN [t EXCEPT !.pc = "call", !.attempt = @ + 1, !.calls = @ + 1]
  ELSE [t EXCEPT !.pc = "done",
                 !.outcome = Returned(BatchItemResult(i, "failed", t.last_error, 0, t.retry_count))]

\* a pass of the retry loop from its top, for a task t set to make the call of
\* its attempt: with an output_schema that schema_map does not hold,
\* _process_structured raises before any call is made and the except block
\* runs in the same stretch, to its sleep or to the end of _process_item
Attempt(t, i, config) ==
  IF t.pc = "call" /\ UnknownSchema(config)
  THEN LET f == ExceptBlock([t EXCEPT !.calls = @ - 1], config) IN
       IF f.pc = "backoff" THEN f ELSE AfterExcept(f, i, config)
  ELSE t

Active(j, i) == run[j].pc = "gather" /\ i \in DOMAIN task[j]

\* a task that gives its permit back while it sleeps in backoff
LeavesSemaphore_backoff(t) == t.pc \in {"done", "backoff"}

\* a task that keeps its permit when it ends with a failure
LeavesSemaphore_never(t) == FALSE

\* the end of "async with semaphore": the task returned or raised
LeavesSemaphore(t) == t.pc = "done"

\* the states in which an item task is inside "async with semaphore"
HoldsPermit(t) == t.pc \in {"wait_lock", "rl_sleep", "call", "backoff"}

\* asyncio starts the gathered tasks in the order of pending_items and wakes the
\* waiters of a semaphore or a lock first come first served, so an item is
\* served after every item before it in pending_items
FirstWaiting(j, i, pc) == \A k \in DOMAIN task[j] : k < i => task[j][k].pc # pc

\* async with semaphore: the permit is taken; a cancelled job's item is skipped
\* and the permit given back at once
Admit(j, i) ==
  /\ Active(j, i)
  /\ task[j][i].pc = "wait_sem"
  /\ FirstWaiting(j, i, "wait_sem")
  /\ _semaphore_map[j] > 0
  /\ last_call' = NoCall
  /\ IF SkipCancelled(_cancel_flags, j)
     THEN /\ task' = [task EXCEPT ![j][i] =
                        [@ EXCEPT !.pc = "done", !.flag_at_admission = TRUE,
                                  !.outcome = Returned(BatchItemResult(i, "skipped", JobCancelled, 0, 0))]]
          /\ UNCHANGED <<_semaphore_map, _rate_limiters>>
     ELSE LET e == EnterBucket([task[j][i] EXCEPT !.flag_at_admission = CancelFlag(_cancel_flags, j)],
                               _rate_limiters[j], i,
                               \E k \in DOMAIN task[j] : task[j][k].pc = "wait_lock")
              u == Attempt(e[1], i, job[j].config) IN
          /\ task' = [task EXCEPT ![j][i] = u]
          /\ _rate_limiters' = [_rate_limiters EXCEPT ![j] = e[2]]
          /\ _semaphore_map' = [_semaphore_map EXCEPT ![j] = IF LeavesSemaphore(u) THEN @ ELSE @ - 1]
  /\ UNCHANGED <<_jobs, job, _cancel_flags, run, run_result, nruns>>
  /\ UNCHANGED outside_batch

\* the token bucket's lock is handed to a waiting item
LockAcquired(j, i) ==
  /\ Active(j, i)
  /\ task[j][i].pc = "wait_lock"
  /\ FirstWaiting(j, i, "wait_lock")
  /\ _rate_limiters[j].locked_by = 0
  /\ LET e == EnterBucket(task[j][i], _rate_limiters[j], i, FALSE)
         u == Attempt(e[1], i, job[j].config) IN
     /\ task' = [task EXCEPT ![j][i] = u]
     /\ _rate_limiters' = [_rate_limiters EXCEPT ![j] = e[2]]
     /\ _semaphore_map' = [_semaphore_map EXCEPT ![j] = IF LeavesSemaphore(u) THEN @ + 1 ELSE @]
  /\ last_call' = NoCall
  /\ UNCHANGED <<_jobs, job, _cancel_flags, run, run_result, nruns>>
  /\ UNCHANGED outside_batch

\* the lock holder's asyncio.sleep(wait_time) is over: refill and test again
BucketWake(j, i) ==
  /\ Active(j, i)
  /\ task[j][i].pc = "rl_sleep"
  /\ _rate_limiters[j].sleep_left = 0
  /\ LET e == EnterBucket(task[j][i], _rate_limiters[j], i, FALSE)
         u == Attempt(e[1], i, job[j].config) IN
     /\ task' = [task EXCEPT ![j][i] = u]
     /\ _rate_limiters' = [_rate_limiters EXCEPT ![j] = e[2]]
     /\ _semaphore_map' = [_semaphore_map EXCEPT ![j] = IF LeavesSemaphore(u) THEN @ + 1 ELSE @]
  /\ last_call' = NoCall
  /\ UNCHANGED <<_jobs, job, _cancel_flags, run, run_result, nruns>>
  /\ UNCHANGED outside_batch

\* the item tasks of the run whose rate_limiter.acquire() is still to complete
ToAcquire(j) == {i \in DOMAIN task[j] : task[j][i].pc \in {"wait_sem", "wait_lock", "rl_sleep"}}

\* time passes for the run's token bucket.  A refill caps the balance at
\* tokens_per_minute and no more than one token per remaining acquire() is
\* ever debited, so elapsed time is counted up to what the run can still use
Tick(j) ==
  /\ j \in DOMAIN _rate_limiters
  /\ LET b == _rate_limiters[j]
         cap == Min(b.tokens_per_minute, Cardinality(ToAcquire(j))) * TicksPerToken IN
     /\ b.tokens + b.elapsed < cap \/ b.sleep_left > 0
     /\ _rate_limiters' = [_rate_limiters EXCEPT ![j] =
          [b EXCEPT !.elapsed = IF b.tokens + @ < cap THEN @ + 1 ELSE @,
                    !.sleep_left = Max(0, @ - 1)]]
  /\ last_call' = NoCall
  /\ UNCHANGED <<_jobs, job, _cancel_flags, _semaphore_map, run, task, run_result, nruns>>
  /\ UNCHANGED outside_batch

\* the gateway call of the current attempt returns: the item's result, or the
\* except block up to its backoff sleep
GatewayReturn(j, i, ok) ==
  /\ Active(j, i)
  /\ task[j][i].pc = "call"
  /\ last_call' = NoCall
  /\ IF ok
     THEN LET completed == SelectCount(job[j].results, "completed") IN
          /\ job' = [job EXCEPT ![j].progress = <<completed + 1, Len(job[j].items)>>]
          /\ task' = [task EXCEPT ![j][i] =
                        [@ EXCEPT !.pc = "done",
                                  !.outcome = Returned(BatchItemResult(i, "completed", NoError, 1,
                                                                    task[j][i].retry_count))]]
          /\ _semaphore_map' = [_semaphore_map EXCEPT ![j] = @ + 1]
     ELSE LET t == ExceptBlock(task[j][i], job[j].config)
              u == IF t.pc = "backoff" THEN t ELSE AfterExcept(t, i, job[j].config) IN
          /\ task' = [task EXCEPT ![j][i] = u]
          /\ _semaphore_map' = [_semaphore_map EXCEPT ![j] = IF LeavesSemaphore(u) THEN @ + 1 ELSE @]
          /\ UNCHANGED job
  /\ UNCHANGED <<_jobs, _cancel_flags, _rate_limiters, run, run_result, nruns>>
  /\ UNCHANGED outside_batch

\* the backoff sleep is over
BackoffWake(j, i) ==
  /\ Active(j, i)
  /\ task[j][i].pc = "backoff"
  /\ LET u == Attempt(AfterExcept(task[j][i], i, job[j].config), i, job[j].config) IN
     /\ task' = [task EXCEPT ![j][i] = u]
     /\ _semaphore_map' = [_semaphore_map EXCEPT ![j] = IF LeavesSemaphore(u) THEN @ + 1 ELSE @]
  /\ last_call' = NoCall
  /\ UNCHANGED <<_jobs, job, _cancel_flags, _rate_limiters, run, run_result, nruns>>
  /\ UNCHANGED outside_batch

Remove(f, j) == [k \in DOMAIN f \ {j} |-> f[k]]

\* run_job resumes from gather: results, final status, token totals, cleanup.
\* gather(return_exceptions=True) hands a raised exception over as a value, so
\* the call returns the job
GatherDone(j) ==
  /\ run[j].pc = "gather"
  /\ \A i \in DOMAIN task[j] : task[j][i].pc = "done"
  /\ job' = [job EXCEPT ![j] =
               Finish(@, run[j].pending_items, task[j], CancelFlag(_cancel_flags, j), nruns)]
  /\ run' = [run EXCEPT ![j] = [pc |-> "idle", pending_items |-> <<>>]]
  /\ run_result' = [run_result EXCEPT ![j] = "returned"]
  /\ _semaphore_map' = Remove(_semaphore_map, j)
  /\ _rate_limiters' = Remove(_rate_limiters, j)
  /\ last_call' = Call("run_job", j, "returned")
  /\ UNCHANGED <<_jobs, _cancel_flags, task, nruns>>
  /\ UNCHANGED outside_batch

\* DELETE /{job_id} of the batch routes
delete_job(j) ==
  /\ IF j \notin _jobs
     THEN UNCHANGED _jobs
     ELSE IF job[j].status = "running"
     THEN UNCHANGED _jobs
     ELSE _jobs' = _jobs \ {j}
  /\ last_call' = NoCall
  /\ UNCHANGED <<job, _cancel_flags, _semaphore_map, _rate_limiters, run, task,
                 run_result, nruns>>
  /\ UNCHANGED outside_batch

\* ---------------------------------------------------------------- stream_progress
\* BatchProgress as stream_progress builds it from the job
BatchProgress(jb, progress) ==
  [status |-> jb.status, progress |-> progress,
   completed_items |-> SelectCount(jb.results, "completed"),
   total_items |-> Len(jb.items),
   failed_items |-> SelectCount(jb.results, "failed")]

NoSnapshot ==
  [status |-> "", progress |-> <<0, 1>>, completed_items |-> 0, total_items |-> 0,
   failed_items |-> 0]

\* no stream_progress call made yet; last_progress = -1
NewStream == [pc |-> "none", last_progress |-> <<-1, 1>>, last |-> NoSnapshot]

\* stream_progress from the test of its while loop to its next sleep, or, out
\* of the loop, through the "Final update" to its end; `last` is the snapshot
\* yielded last
PollLoop(st, jb) ==
  IF jb.status = "running"
  THEN [pc |-> "sleep", last_progress |-> jb.progress,
        last |-> IF jb.progress # st.last_progress
                 THEN BatchProgress(jb, jb.progress) ELSE st.last]
  ELSE [pc |-> "ended", last_progress |-> st.last_progress,
        last |-> BatchProgress(jb, <<1, 1>>)]

\* BatchService.stream_progress(job_id), consumed to its first sleep or to its end
stream_progress(j) ==
  /\ progress_stream[j].pc = "none"
  /\ progress_stream' = [progress_stream EXCEPT ![j] =
       IF j \notin _jobs THEN [@ EXCEPT !.pc = "ended"] ELSE PollLoop(@, job[j])]
  /\ last_call' = NoCall
  /\ UNCHANGED <<_jobs, job, _cancel_flags, _semaphore_map, _rate_limiters, run, task,
                 run_result, nruns>>
  /\ UNCHANGED <<bucket_vars, chain_vars>>

\* the generator's asyncio.sleep(0.5) is over
StreamWake(j) ==
  /\ progress_stream[j].pc = "sleep"
  /\ progress_stream' = [progress_stream EXCEPT ![j] = PollLoop(@, job[j])]
  /\ last_call' = NoCall
  /\ UNCHANGED <<_jobs, job, _cancel_flags, _semaphore_map, _rate_limiters, run, task,
                 run_result, nruns>>
  /\ UNCHANGED <<bucket_vars, chain_vars>>

\* ---------------------------------------------------------------- a TokenBucket and its callers
\* a coroutine about to call acquire(); the fields are those EnterBucket works on
NewCaller == [pc |-> "idle", attempt |-> 0, calls |-> 0]

\* 60 seconds in the time units of bucket b
Window(b) == b.tokens_per_minute * TicksPerToken

\* the ages one time unit later; a completion that is 60 s old shares no 60 s
\* window with a later one and is dropped
Aged(ages, w) == SelectSeq([k \in 1..Len(ages) |-> ages[k] + 1], LAMBDA a : a < w)

\* acquire() of caller c from the point where it may take _lock (or queue for
\* it) up to its next suspension point; a completed call is recorded with age 0
Acquiring(c, queued) ==
  LET e == EnterBucket(caller[c], bucket, c, queued) IN
  /\ caller' = [caller EXCEPT ![c] = e[1]]
  /\ bucket' = e[2]
  /\ acquired' = IF e[1].pc = "call" THEN Append(acquired, 0) ELSE acquired
  /\ UNCHANGED <<batch_vars, chain_vars>>

\* TokenBucket.acquire is called; callers are numbered in the order of their calls
acquire(c) ==
  /\ caller[c].pc = "idle"
  /\ \A k \in DOMAIN caller : k < c => caller[k].pc # "idle"
  /\ Acquiring(c, \E k \in DOMAIN caller : caller[k].pc = "wait_lock")

\* _lock is handed to the caller that waited longest
LockHandover(c) ==
  /\ caller[c].pc = "wait_lock"
  /\ \A k \in DOMAIN caller : k < c => caller[k].pc # "wait_lock"
  /\ bucket.locked_by = 0
  /\ Acquiring(c, FALSE)

\* the lock holder's asyncio.sleep(wait_time) is over: refill and test again
SleepOver(c) ==
  /\ caller[c].pc = "rl_sleep"
  /\ bucket.sleep_left = 0
  /\ Acquiring(c, FALSE)

\* one time unit passes.  After 60 s without a refill the next refill fills the
\* bucket whatever its balance, so elapsed time is counted up to 60 s
BucketTick ==
  /\ bucket' = [bucket EXCEPT !.elapsed = Min(@ + 1, Window(bucket)),
                              !.sleep_left = Max(0, @ - 1)]
  /\ acquired' = Aged(acquired, Window(bucket))
  /\ UNCHANGED <<caller, batch_vars, chain_vars>>

\* no bucket outside a run
BucketIdle ==
  /\ bucket = TokenBucket(1)
  /\ caller = <<>>
  /\ acquired = <<>>

\* ---------------------------------------------------------------- prompt chains
\* ChainStepDefinition.id and .output_key of the step at each position; the id
\* past the last step of a chain belongs to no step
StepIds == <<"A", "B", "C", "D", "E">>
OutputKeys == <<"a", "b", "c", "d", "e">>
\* values of ChainStepDefinition.retry_count
ChainRetryCounts == {1}

\* Python values held by outputs and by the context
None == [kind |-> "None", of |-> ""]
\* response.content of the call made for step id
Str(id) == [kind |-> "str", of |-> id]
\* result.model_dump() of the extraction made for step id
Dict(id) == [kind |-> "dict", of |-> id]
\* bool(v): None and the empty string are false
Truthy(v) == v.kind # "None" /\ v # Str("")
\* a or b
Or(a, b) == IF Truthy(a) THEN a ELSE b

\* the step at position k of a chain; "" stands for an Optional field left None
ChainStepDefinition(k, dependencies, condition, output_schema, retry_count) ==
  [id |-> StepIds[k], dependencies |-> dependencies, condition |-> condition,
   output_key |-> OutputKeys[k], output_schema |-> output_schema,
   retry_count |-> retry_count]

ChainDefinition(steps, execution_mode) ==
  [steps |-> steps, execution_mode |-> execution_mode, variables |-> <<>>]

ChainStepResult(step_id, status, output, structured_output, error) ==
  [step_id |-> step_id, status |-> status, output |-> output,
   structured_output |-> structured_output, error |-> error]

NoStepResult == ChainStepResult("", "pending", None, None, NoError)

\* the SKIPPED result of the sequential and conditional loops
Skipped(step, msg) == ChainStepResult(step.id, "skipped", None, None, Err(msg, 0))

\* the COMPLETED result of _execute_step for the value the gateway returned
Completed(step, value) ==
  LET structured == IF value.kind = "dict" THEN value ELSE None IN
  ChainStepResult(step.id, "completed",
                  IF ~Truthy(structured) THEN value ELSE None, structured, NoError)

\* _check_dependencies that is satisfied by any result of the dependency
CheckDependencies_anyresult(step, completed_results) ==
  LET ids == {completed_results[k].step_id : k \in 1..Len(completed_results)}
  IN step.dependencies \subseteq ids

\* _check_dependencies
CheckDependencies(step, completed_results) ==
  LET completed_ids == {completed_results[k].step_id :
                          k \in {n \in 1..Len(completed_results) :
                                   completed_results[n].status = "completed"}}
  IN step.dependencies \subseteq completed_ids

\* eval(step.condition, {"__builtins__": {}}, context) for the conditions of the
\* model: the literals True and False, and a bare name, which is looked up in
\* the context and raises NameError when it is not there
Eval(condition, ctx) ==
  IF condition = "True" THEN "true"
  ELSE IF condition = "False" THEN "false"
  ELSE IF condition \notin DOMAIN ctx THEN "raise"
  ELSE IF Truthy(ctx[condition]) THEN "true" ELSE "false"

\* a test that also skips a step whose condition raises
ShouldExecute_strict(step, ctx) ==
  IF step.condition # "" THEN Eval(step.condition, ctx) = "true" ELSE TRUE

\* the conditional loop's test of a step: FALSE when the step is to be skipped
ShouldExecute(step, ctx) ==
  IF step.condition # "" THEN Eval(step.condition, ctx) # "false" ELSE TRUE

\* context[step.output_key] = result.structured_output or result.output, for a
\* COMPLETED result
UpdateContext(ctx, step, result) ==
  IF result.status = "completed"
  THEN (step.output_key :> Or(result.structured_output, result.output)) @@ ctx
  ELSE ctx

Range(s) == {s[k] : k \in 1..Len(s)}

\* _group_by_dependency_level from the top of its while loop; steps are named
\* by their position in the chain
RECURSIVE Levels(_, _, _)
Levels(steps, remaining, resolved_ids) ==
  IF remaining = <<>> THEN <<>>
  ELSE LET current_level ==
             SelectSeq(remaining, LAMBDA k : steps[k].dependencies \subseteq resolved_ids) IN
       IF current_level = <<>>
       THEN <<remaining>>
       ELSE <<current_level>> \o
            Levels(steps,
                   SelectSeq(remaining, LAMBDA k : k \notin Range(current_level)),
                   resolved_ids \cup {steps[k].id : k \in Range(current_level)})

\* a grouping that puts every step in one level
GroupByDependencyLevel_onelevel(steps) ==
  IF steps = <<>> THEN <<>> ELSE <<[k \in 1..Len(steps) |-> k]>>

\* _group_by_dependency_level
GroupByDependencyLevel(steps) == Levels(steps, [k \in 1..Len(steps) |-> k], {})

\* the output of the last result, whatever its status
FinalOutput_lastresult(results) ==
  IF results = <<>> THEN None
  ELSE Or(results[Len(results)].structured_output, results[Len(results)].output)

\* "Get final output from last successful step"
RECURSIVE FinalOutput(_)
FinalOutput(results) ==
  IF results = <<>> THEN None
  ELSE LET result == results[Len(results)] IN
       IF result.status = "completed"
       THEN Or(result.structured_output, result.output)
       ELSE FinalOutput(SubSeq(results, 1, Len(results) - 1))

\* success computed from the last result alone
Success_lastonly(results) ==
  results = <<>> \/ results[Len(results)].status = "completed"

\* success = all(r.status == COMPLETED for r in step_results)
Success(results) == \A k \in 1..Len(results) : results[k].status = "completed"

ChainExecutionResult(results, ctx) ==
  [success |-> Success(results), steps |-> results,
   final_output |-> FinalOutput(results), context |-> ctx, error |-> NoError]

NoChainResult == [success |-> FALSE, steps |-> <<>>, final_output |-> None,
                  context |-> <<>>, error |-> NoError]

\* ---------------------------------------------------------------- _execute_step
\* _execute_step up to the gateway call of its first attempt; the prompt is
\* rendered from the context as it is then
StartStep(ctx) ==
  [pc |-> "call", attempt |-> 0, last_error |-> NoError, result |-> NoStepResult,
   calls |-> 1, rendered_with |-> ctx]

\* the gateway returned a value: the COMPLETED result
StepReturn(t, step, value) == [t EXCEPT !.pc = "done", !.result = Completed(step, value)]

\* the except block: a sleep of 2 ** attempt before the next attempt, or the
\* FAILED result after the loop
StepExcept(t, step) ==
  LET failed == [t EXCEPT !.last_error = GatewayError(t.attempt)] IN
  IF t.attempt < step.retry_count
  THEN [failed EXCEPT !.pc = "backoff"]
  ELSE [failed EXCEPT !.pc = "done",
                      !.result = ChainStepResult(step.id, "failed", None, None, failed.last_error)]

\* the next pass of the retry loop, up to its gateway call
StepRetry(t, ctx) ==
  [t EXCEPT !.pc = "call", !.attempt = @ + 1, !.calls = @ + 1, !.rendered_with = ctx]

\* ---------------------------------------------------------------- execute_chain
\* the for loop of _execute_sequential from step k up to its next _execute_step
\* call: the position reached (past the last step when the loop is over) and
\* the results
RECURSIVE SequentialLoop(_, _, _)
SequentialLoop(steps, k, results) ==
  IF k > Len(steps) THEN <<k, results>>
  ELSE IF ~CheckDependencies(steps[k], results)
  THEN SequentialLoop(steps, k + 1,
                      Append(results, Skipped(steps[k], "Dependencies not met")))
  ELSE <<k, results>>

\* the for loop of _execute_conditional, likewise
RECURSIVE ConditionalLoop(_, _, _, _)
ConditionalLoop(steps, k, results, ctx) ==
  IF k > Len(steps) THEN <<k, results>>
  ELSE IF ~ShouldExecute(steps[k], ctx)
  THEN ConditionalLoop(steps, k + 1,
                       Append(results, Skipped(steps[k], "Condition not met")), ctx)
  ELSE <<k, results>>

\* the loop over zip(level_steps, level_results) of _execute_parallel: the
\* results and the context after it
RECURSIVE LevelResults(_, _, _, _, _)
LevelResults(steps, level, tasks, results, ctx) ==
  IF level = <<>> THEN <<results, ctx>>
  ELSE LET k == Head(level)
           result == tasks[k].result IN
       LevelResults(steps, Tail(level), tasks, Append(results, result),
                    UpdateContext(ctx, steps[k], result))

\* a gather that returns as soon as one task of the level is done
LevelResolved_any(level, tasks) == \E k \in Range(level) : tasks[k].pc = "done"

\* asyncio.gather returns when every task of the level is done
LevelResolved(level, tasks) == \A k \in Range(level) : tasks[k].pc = "done"

RunState(pc, at, levels) == [pc |-> pc, at |-> at, levels |-> levels]

\* execute_chain from the top of the loop of its _execute_* method, at step (or
\* level) `at`, up to the next await or to its return: the coroutine's new
\* position, the results, the _execute_step coroutines started, the value returned
Continue(c, levels, at, results, ctx) ==
  LET r == IF c.execution_mode = "sequential" THEN SequentialLoop(c.steps, at, results)
           ELSE IF c.execution_mode = "conditional"
           THEN ConditionalLoop(c.steps, at, results, ctx)
           ELSE <<at, results>>
      over == IF c.execution_mode = "parallel" THEN at > Len(levels)
              ELSE r[1] > Len(c.steps)
  IN
  IF over
  THEN [chain_run |-> RunState("returned", r[1], levels), step_results |-> r[2],
        started |-> <<>>, chain_result |-> ChainExecutionResult(r[2], ctx)]
  ELSE IF c.execution_mode = "parallel"
  THEN [chain_run |-> RunState("gather", at, levels), step_results |-> results,
        started |-> [k \in Range(levels[at]) |-> StartStep(ctx)],
        chain_result |-> NoChainResult]
  ELSE [chain_run |-> RunState("step", r[1], levels), step_results |-> r[2],
        started |-> (r[1] :> StartStep(ctx)), chain_result |-> NoChainResult]

\* the execute_chain coroutine runs on from the top of its loop
Resume(levels, at, results, ctx, tasks) ==
  LET n == Continue(chain, levels, at, results, ctx) IN
  /\ chain_run' = n.chain_run
  /\ step_results' = n.step_results
  /\ step_task' = n.started @@ tasks
  /\ chain_result' = n.chain_result
  /\ context' = ctx
  /\ UNCHANGED <<chain, batch_vars, bucket_vars>>

\* PromptChainService.execute_chain up to its first await, or to its return
\* when no step is executed
execute_chain ==
  /\ chain_run.pc = "new"
  /\ Resume(IF chain.execution_mode = "parallel"
            THEN GroupByDependencyLevel(chain.steps) ELSE <<>>,
            1, <<>>, chain.variables, <<>>)

\* the gateway call made for step k returns a value (which may be the empty
\* string for a plain call) or raises.  In the sequential and conditional modes
\* the end of _execute_step runs on into the caller's loop
ChainGatewayReturn(k, outcome) ==
  /\ chain_run.pc \in {"step", "gather"}
  /\ k \in DOMAIN step_task
  /\ step_task[k].pc = "call"
  /\ outcome = "empty" => chain.steps[k].output_schema = ""
  /\ LET step == chain.steps[k]
         value == IF outcome = "empty" THEN Str("")
                  ELSE IF step.output_schema # "" THEN Dict(step.id) ELSE Str(step.id)
         t == IF outcome = "error" THEN StepExcept(step_task[k], step)
              ELSE StepReturn(step_task[k], step, value)
         tasks == [step_task EXCEPT ![k] = t]
     IN IF t.pc = "done" /\ chain_run.pc = "step"
        THEN Resume(chain_run.levels, k + 1, Append(step_results, t.result),
                    UpdateContext(context, step, t.result), tasks)
        ELSE /\ step_task' = tasks
             /\ UNCHANGED <<chain, context, step_results, chain_run, chain_result,
                            batch_vars, bucket_vars>>

\* the backoff sleep of step k is over
ChainBackoffWake(k) ==
  /\ chain_run.pc \in {"step", "gather", "stream"}
  /\ k \in DOMAIN step_task
  /\ step_task[k].pc = "backoff"
  /\ step_task' = [step_task EXCEPT ![k] = StepRetry(@, context)]
  /\ UNCHANGED <<chain, context, step_results, chain_run, chain_result,
                 batch_vars, bucket_vars>>

\* _execute_parallel resumes from the gather of a level
ChainGatherDone ==
  /\ chain_run.pc = "gather"
  /\ LevelResolved(chain_run.levels[chain_run.at], step_task)
  /\ LET e == LevelResults(chain.steps, chain_run.levels[chain_run.at], step_task,
                           step_results, context) IN
     Resume(chain_run.levels, chain_run.at + 1, e[1], e[2], step_task)

\* ---------------------------------------------------------------- stream_execute
\* the for loop of stream_execute from step k up to its next _execute_step
\* call; each skipped result is yielded, the consumer takes it and the
\* generator runs on
RECURSIVE StreamLoop(_, _, _, _)
StreamLoop(steps, k, results, ctx) ==
  IF k > Len(steps) THEN <<k, results>>
  ELSE LET deps_met == steps[k].dependencies \subseteq DOMAIN ctx IN
       IF ~deps_met
       THEN StreamLoop(steps, k + 1,
                       Append(results, Skipped(steps[k], "Dependencies not met")), ctx)
       ELSE <<k, results>>

\* the stream_execute generator runs on from the top of its loop, to its next
\* await or to its end; step_results holds the results yielded so far
StreamResume(at, results, ctx, tasks) ==
  LET r == StreamLoop(chain.steps, at, results, ctx) IN
  /\ step_results' = r[2]
  /\ context' = ctx
  /\ IF r[1] > Len(chain.steps)
     THEN /\ chain_run' = RunState("stream_end", r[1], <<>>)
          /\ step_task' = tasks
     ELSE /\ chain_run' = RunState("stream", r[1], <<>>)
          /\ step_task' = (r[1] :> StartStep(ctx)) @@ tasks
  /\ UNCHANGED <<chain, chain_result, batch_vars, bucket_vars>>

\* PromptChainService.stream_execute, consumed to its first await or to its end
stream_execute(variables) ==
  /\ chain_run.pc = "stream_new"
  /\ StreamResume(1, <<>>, variables @@ chain.variables, <<>>)

\* the gateway call made for step k of a streamed chain returns or raises; the
\* result of a finished _execute_step is yielded and the generator runs on
StreamGatewayReturn(k, outcome) ==
  /\ chain_run.pc = "stream"
  /\ k \in DOMAIN step_task
  /\ step_task[k].pc = "call"
  /\ outcome = "empty" => chain.steps[k].output_schema = ""
  /\ LET step == chain.steps[k]
         value == IF outcome = "empty" THEN Str("")
                  ELSE IF step.output_schema # "" THEN Dict(step.id) ELSE Str(step.id)
         t == IF outcome = "error" THEN StepExcept(step_task[k], step)
              ELSE StepReturn(step_task[k], step, value)
         tasks == [step_task EXCEPT ![k] = t]
     IN IF t.pc = "done"
        THEN StreamResume(k + 1, Append(step_results, t.result),
                          UpdateContext(context, step, t.result), tasks)
        ELSE /\ step_task' = tasks
             /\ UNCHANGED <<chain, context, step_results, chain_run, chain_result,
                            batch_vars, bucket_vars>>

\* the variables given to a call: none, or one under the name of the first step
VariableBindings == {<<>>, (StepIds[1] :> Str("given"))}

\* the dependency lists given to the step at position k: none, the step before
\* it, the step after it (an unknown id for the last step), every earlier step
DepChoices(k) ==
  {{}, {StepIds[j] : j \in {k - 1} \ {0}}, {StepIds[k + 1]},
   {StepIds[j] : j \in 1..(k - 1)}}

\* the conditions given to the step at position k: none, the literals, the
\* output key of the step before it (its own for the first step)
CondChoices(k) == {"", "True", "False", OutputKeys[Max(1, k - 1)]}

\* the step lists of n steps.  _execute_conditional never reads
\* step.dependencies and the other two modes never read step.condition
RECURSIVE StepSeqs(_, _, _)
StepSeqs(mode, n, retry) ==
  IF n = 0 THEN {<<>>}
  ELSE {Append(s, ChainStepDefinition(n, d, c, "", retry)) :
          s \in StepSeqs(mode, n - 1, retry),
          d \in IF mode = "conditional" THEN {{}} ELSE DepChoices(n),
          c \in IF mode = "conditional" THEN CondChoices(n) ELSE {""}}

\* step k, if any, asks for a structured output (the model's chains ask for
\* none or for one at their last step)
WithSchema(steps, k) ==
  [i \in 1..Len(steps) |->
     IF i = k THEN [steps[i] EXCEPT !.output_schema = "SafetyCheck"] ELSE steps[i]]

ExecutionModes == {"sequential", "parallel", "conditional"}

\* no chain is executed
ChainIdle ==
  /\ chain = ChainDefinition(<<>>, "sequential")
  /\ context = <<>>
  /\ step_results = <<>>
  /\ chain_run = RunState("none", 0, <<>>)
  /\ step_task = <<>>
  /\ chain_result = NoChainResult

\* a BatchService after construction
BatchInit ==
  /\ _jobs = {}
  /\ job = <<>>
  /\ _cancel_flags = <<>>
  /\ _semaphore_map = <<>>
  /\ _rate_limiters = <<>>
  /\ run = [j \in JobIds |-> [pc |-> "idle", pending_items |-> <<>>]]
  /\ task = [j \in JobIds |-> <<>>]
  /\ run_result = [j \in JobIds |-> "none"]
  /\ nruns = 0
  /\ last_call = NoCall
  /\ progress_stream = [j \in JobIds |-> NewStream]

Init == BatchInit /\ BucketIdle /\ ChainIdle

Next ==
  \/ \E j \in JobIds, n \in 0..MaxItems, config \in BatchConfigs : create_job(j, n, config)
  \/ \E j \in JobIds : cancel_job(j)
  \/ \E j \in JobIds : run_job(j)
  \/ \E j \in JobIds, i \in 1..MaxItems : Admit(j, i)
  \/ \E j \in JobIds, i \in 1..MaxItems : LockAcquired(j, i)
  \/ \E j \in JobIds, i \in 1..MaxItems : BucketWake(j, i)
  \/ \E j \in JobIds : Tick(j)
  \/ \E j \in JobIds, i \in 1..MaxItems, ok \in BOOLEAN : GatewayReturn(j, i, ok)
  \/ \E j \in JobIds, i \in 1..MaxItems : BackoffWake(j, i)
  \/ \E j \in JobIds : GatherDone(j)

\* the Batch Job Engine on its own
Spec == Init /\ [][Next]_vars

\* the engine behind the batch routes, whose DELETE removes jobs from the registry
NextRoutes ==
  \/ Next
  \/ \E j \in JobIds : delete_job(j)

SpecRoutes == Init /\ [][NextRoutes]_vars

\* the engine on an event loop that runs every ready coroutine and fires every
\* timer, with a gateway that need not answer: nothing in _process_item or
\* _process_regular cuts a gateway call short
SpecGatewayHangs ==
  /\ Init /\ [][Next]_vars
  /\ WF_vars(\E j \in JobIds, i \in 1..MaxItems : Admit(j, i))
  /\ WF_vars(\E j \in JobIds, i \in 1..MaxItems : LockAcquired(j, i))
  /\ WF_vars(\E j \in JobIds, i \in 1..MaxItems : BucketWake(j, i))
  /\ WF_vars(\E j \in JobIds : Tick(j))
  /\ WF_vars(\E j \in JobIds, i \in 1..MaxItems : BackoffWake(j, i))
  /\ WF_vars(\E j \in JobIds : GatherDone(j))

\* a step of a run: a ready coroutine is resumed, a timer fires, or a gateway
\* call comes back with a response or an error
RunStep ==
  \/ \E j \in JobIds, i \in 1..MaxItems : Admit(j, i)
  \/ \E j \in JobIds, i \in 1..MaxItems : LockAcquired(j, i)
  \/ \E j \in JobIds, i \in 1..MaxItems : BucketWake(j, i)
  \/ \E j \in JobIds : Tick(j)
  \/ \E j \in JobIds, i \in 1..MaxItems, ok \in BOOLEAN : GatewayReturn(j, i, ok)
  \/ \E j \in JobIds, i \in 1..MaxItems : BackoffWake(j, i)
  \/ \E j \in JobIds : GatherDone(j)

\* the engine on an event loop that does not stop while a coroutine is ready
\* or a timer is due, with a gateway whose every call returns
SpecGatewayReturns == Init /\ [][Next]_vars /\ WF_vars(RunStep)

\* the engine with jobs that ask for a structured output under a name unknown
\* to _process_structured, beside those that ask for none
NextSchema ==
  \/ \E j \in JobIds, n \in 0..MaxItems, config \in SchemaConfigs : create_job(j, n, config)
  \/ \E j \in JobIds : cancel_job(j)
  \/ \E j \in JobIds : run_job(j)
  \/ RunStep

SpecSchema == Init /\ [][NextSchema]_vars

\* the engine with consumers of stream_progress
NextProgress ==
  \/ Next
  \/ \E j \in JobIds : stream_progress(j)
  \/ \E j \in JobIds : StreamWake(j)

SpecProgress == Init /\ [][NextProgress]_vars

\* one TokenBucket of any rate, full as constructed, and its callers
InitBucket ==
  /\ BatchInit /\ ChainIdle
  /\ \E n \in 1..MaxBucketRate : bucket = TokenBucket(n)
  /\ caller = [c \in 1..MaxCallers |-> NewCaller]
  /\ acquired = <<>>

NextBucket ==
  \/ \E c \in 1..MaxCallers : acquire(c)
  \/ \E c \in 1..MaxCallers : LockHandover(c)
  \/ \E c \in 1..MaxCallers : SleepOver(c)
  \/ BucketTick

SpecBucket == InitBucket /\ [][NextBucket]_vars

\* one call of execute_chain on any chain of the model
InitChain ==
  /\ BatchInit /\ BucketIdle
  /\ \E mode \in ExecutionModes, n \in 0..MaxSteps, retry \in ChainRetryCounts :
       \E steps \in StepSeqs(mode, n, retry), k \in {0, n} :
         chain = ChainDefinition(WithSchema(steps, k), mode)
  /\ context = <<>>
  /\ step_results = <<>>
  /\ chain_run = RunState("new", 0, <<>>)
  /\ step_task = <<>>
  /\ chain_result = NoChainResult

NextChain ==
  \/ execute_chain
  \/ \E k \in 1..MaxSteps, outcome \in {"ok", "empty", "error"} : ChainGatewayReturn(k, outcome)
  \/ \E k \in 1..MaxSteps : ChainBackoffWake(k)
  \/ ChainGatherDone

SpecChain == InitChain /\ [][NextChain]_vars

\* one call of stream_execute on any chain of the model, consumed to its end;
\* stream_execute never reads chain.execution_mode
InitStream ==
  /\ BatchInit /\ BucketIdle
  /\ \E n \in 0..MaxSteps, retry \in ChainRetryCounts :
       \E steps \in StepSeqs("sequential", n, retry), k \in {0, n} :
         chain = ChainDefinition(WithSchema(steps, k), "sequential")
  /\ context = <<>>
  /\ step_results = <<>>
  /\ chain_run = RunState("stream_new", 0, <<>>)
  /\ step_task = <<>>
  /\ chain_result = NoChainResult

NextStream ==
  \/ \E variables \in VariableBindings : stream_execute(variables)
  \/ \E k \in 1..MaxSteps, outcome \in {"ok", "empty", "error"} : StreamGatewayReturn(k, outcome)
  \/ \E k \in 1..MaxSteps : ChainBackoffWake(k)

SpecStream == InitStream /\ [][NextStream]_vars

\* ---------------------------------------------------------------- properties
\* a run of job j has returned and no other run has started since
RunFinished(j) == j \in DOMAIN job /\ run[j].pc = "idle" /\ run_result[j] = "returned"

FailedCount(j) == Cardinality({k \in 1..Len(job[j].results) : job[j].results[k].status = "failed"})

ResultIds(j) == {job[j].results[k].item_id : k \in 1..Len(job[j].results)}

ItemIds(j) == {job[j].items[k] : k \in 1..Len(job[j].items)}

\* C1: when a run has finished and the job's cancel flag was never raised, the
\* status is completed iff no result is failed, failed iff there is a result and
\* every result is failed, partial iff some but not all results are failed
C1_StatusDerivation ==
  \A j \in DOMAIN job :
    (RunFinished(j) /\ ~_cancel_flags[j]) =>
      LET n == Len(job[j].results)
          f == FailedCount(j) IN
      /\ (job[j].status = "completed") <=> (f = 0)
      /\ (job[j].status = "failed") <=> (f = n /\ n > 0)
      /\ (job[j].status = "partial") <=> (0 < f /\ f < n)

C1_Witness ==
  \E j \in DOMAIN job :
    /\ RunFinished(j) /\ ~_cancel_flags[j]
    /\ job[j].status = "partial"
    /\ \E i \in DOMAIN task[j] : task[j][i].calls > 1

\* C2: whenever a run has finished, results holds exactly one result per item,
\* and while a run is in progress no item that already has a result has an item
\* task that made a gateway call
C2_OneResultPerItem ==
  \A j \in DOMAIN job :
    /\ RunFinished(j) =>
         /\ Len(job[j].results) = Len(job[j].items)
         /\ ResultIds(j) = ItemIds(j)
         /\ Cardinality(ResultIds(j)) = Len(job[j].results)
    /\ run[j].pc = "gather" =>
         \A i \in DOMAIN task[j] : task[j][i].calls > 0 => i \notin ResultIds(j)

C2_Witness ==
  \E j \in DOMAIN job :
    /\ RunFinished(j)
    /\ job[j].started_at = 2
    /\ job[j].status = "partial"
    /\ Len(job[j].results) = 2

\* an item task that finished without a successful gateway call, after at
\* least one call: every attempt it made failed
AlwaysFailed(t) == t.pc = "done" /\ t.calls > 0 /\ t.outcome.value.status # "completed"

\* the backoff delays of k retries: base, 2*base, 4*base, ...
Backoffs(k, base) == [a \in 1..k |-> base * Pow2(a - 1)]

\* C3: an item whose gateway call always fails is attempted retry_attempts + 1
\* times and sleeps retry_delay_seconds * 2^i after failed attempt i < retry_attempts,
\* and nothing after the last attempt
C3_RetrySchedule ==
  \A j \in DOMAIN job : \A i \in DOMAIN task[j] :
    AlwaysFailed(task[j][i]) =>
      /\ task[j][i].calls = job[j].config.retry_attempts + 1
      /\ task[j][i].sleeps =
           Backoffs(job[j].config.retry_attempts, job[j].config.retry_delay_seconds)

\* the result recorded in job.results for item i
ResultOf(j, i) ==
  LET k == CHOOSE k \in 1..Len(job[j].results) : job[j].results[k].item_id = i
  IN job[j].results[k]

\* C4: with stop_on_error off, once a run has finished an item that failed on
\* every attempt is recorded failed with the error of its last attempt and
\* retry_count = retry_attempts, an item whose call succeeded is recorded
\* completed, every item has its result, and a job holding both kinds of item
\* (cancel flag not raised) is partial
C4_FailureIsolated ==
  \A j \in DOMAIN job :
    (RunFinished(j) /\ ~job[j].config.stop_on_error) =>
      /\ \A i \in DOMAIN task[j] :
           /\ i \in ResultIds(j)
           /\ AlwaysFailed(task[j][i]) =>
                /\ ResultOf(j, i).status = "failed"
                /\ ResultOf(j, i).error = GatewayError(job[j].config.retry_attempts)
                /\ ResultOf(j, i).retry_count = job[j].config.retry_attempts
           /\ (task[j][i].calls > 0 /\ ~AlwaysFailed(task[j][i])) =>
                ResultOf(j, i).status = "completed"
      /\ ( /\ ~_cancel_flags[j]
           /\ \E i \in DOMAIN task[j] : AlwaysFailed(task[j][i])
           /\ \E i \in DOMAIN task[j] : task[j][i].calls > 0 /\ ~AlwaysFailed(task[j][i]) )
         => job[j].status = "partial"

C4_Witness ==
  \E j \in DOMAIN job :
    /\ RunFinished(j) /\ ~job[j].config.stop_on_error /\ job[j].started_at = 1
    /\ job[j].config.retry_attempts >= 1
    /\ job[j].status = "partial"
    /\ \E i \in DOMAIN task[j] :
         /\ AlwaysFailed(task[j][i])
         /\ ResultOf(j, i).retry_count = job[j].config.retry_attempts
         /\ ResultOf(j, i).error = GatewayError(job[j].config.retry_attempts)
    /\ \E i \in DOMAIN task[j] : ResultOf(j, i).status = "completed"

\* the step in which an accepted run_job call returns
RunEnds(j) ==
  /\ last_call'.op = "run_job" /\ last_call'.id = j
  /\ \/ last_call'.result = "returned"
     \/ last_call'.result = "accepted" /\ run'[j].pc = "idle"

SomeRaised(j) == \E i \in DOMAIN task[j] : task[j][i].outcome.kind = "exception"

\* C5: with stop_on_error on, once an item task has raised, no item of the run
\* that has not yet made a gateway call makes one, and the run_job call ends by
\* raising the failure
C5_StopOnErrorAborts ==
  [][\A j \in DOMAIN job :
       (run[j].pc = "gather" /\ job[j].config.stop_on_error /\ SomeRaised(j)) =>
         /\ \A i \in DOMAIN task[j] : task[j][i].calls = 0 => task'[j][i].calls = 0
         /\ RunEnds(j) => run_result'[j] = "raised"]_vars

\* C6: with stop_on_error on and retry_attempts >= 1, an item task raises only
\* after retry_attempts + 1 failed attempts
C6_RetriesBeforeRaise ==
  \A j \in DOMAIN job : \A i \in DOMAIN task[j] :
    ( /\ job[j].config.stop_on_error
      /\ job[j].config.retry_attempts >= 1
      /\ task[j][i].outcome.kind = "exception" )
    => task[j][i].calls = job[j].config.retry_attempts + 1

\* C7: an item task admitted by the semaphore after the cancel flag was set
\* makes no gateway call and ends skipped with error "Job cancelled"; an item
\* task admitted before ends completed or failed; and a run that ends with the
\* flag set leaves the job cancelled
C7_CancelDuringRun ==
  /\ [](\A j \in DOMAIN job : \A i \in DOMAIN task[j] :
          LET t == task[j][i] IN
          /\ (t.pc # "wait_sem" /\ t.flag_at_admission) =>
               /\ t.pc = "done" /\ t.calls = 0
               /\ t.outcome = Returned(BatchItemResult(i, "skipped", JobCancelled, 0, 0))
          /\ (t.pc = "done" /\ ~t.flag_at_admission) =>
               /\ t.calls > 0
               /\ t.outcome.value.status \in {"completed", "failed"})
  /\ [][\A j \in DOMAIN job :
          (RunEnds(j) /\ CancelFlag(_cancel_flags, j)) => job'[j].status = "cancelled"]_vars

C7_Witness ==
  \E j \in DOMAIN job :
    /\ RunFinished(j) /\ job[j].status = "cancelled"
    /\ \E i \in DOMAIN task[j] :
         task[j][i].flag_at_admission /\ ResultOf(j, i).status = "skipped"
    /\ \E i \in DOMAIN task[j] :
         ~task[j][i].flag_at_admission /\ ResultOf(j, i).status = "completed"

\* C8: a job is never cancelled while one of its item tasks is in a gateway
\* call or in a retry backoff
C8_CancelledAfterItems ==
  \A j \in DOMAIN job :
    job[j].status = "cancelled" =>
      ~(run[j].pc = "gather" /\ \E i \in DOMAIN task[j] : task[j][i].pc \in {"call", "backoff"})

JobState(j) == <<job, task, run, run_result, _semaphore_map, _rate_limiters, _cancel_flags, _jobs, nruns>>

\* C9: a run_job call on an unregistered id ends with NotFound, one on a job
\* that is neither pending nor partial ends with InvalidState, and either
\* leaves the job, its tasks and the run state as they were
C9_RunJobRejects ==
  [][\A j \in JobIds :
       (last_call'.op = "run_job" /\ last_call'.id = j /\ last_call'.result # "returned") =>
         /\ j \notin _jobs =>
              last_call'.result = "NotFound" /\ UNCHANGED JobState(j)
         /\ (j \in _jobs /\ job[j].status \notin {"pending", "partial"}) =>
              last_call'.result = "InvalidState" /\ UNCHANGED JobState(j)]_vars

C9_Witness ==
  \E j \in DOMAIN job :
    /\ last_call = Call("run_job", j, "InvalidState")
    /\ job[j].status = "running"
    /\ \E i \in DOMAIN task[j] : task[j][i].pc = "call"

Holders(j) == {i \in DOMAIN task[j] : HoldsPermit(task[j][i])}

\* C10: during a run the item tasks holding a permit, those in a rate-limiter
\* wait or a retry backoff included, never outnumber max_concurrency, and with
\* the free permits they add up to max_concurrency
C10_BoundedConcurrency ==
  \A j \in DOMAIN job :
    run[j].pc = "gather" =>
      /\ Cardinality(Holders(j)) <= job[j].config.max_concurrency
      /\ Cardinality(Holders(j)) + _semaphore_map[j] = job[j].config.max_concurrency

C10_Witness ==
  \E j \in DOMAIN job :
    /\ run[j].pc = "gather"
    /\ Cardinality(Holders(j)) = job[j].config.max_concurrency
    /\ \E i \in DOMAIN task[j] : task[j][i].pc = "backoff"
    /\ \E i \in DOMAIN task[j] : task[j][i].pc = "wait_sem"

\* C11: on a bucket of N tokens per minute, the acquire() calls completed less
\* than 60 seconds apart never number more than N + 1
C11_WindowBound == Len(acquired) <= bucket.tokens_per_minute + 1

\* C12: the balance stays between 0 and tokens_per_minute, and a step that
\* completes an acquire() debits one token from a refilled balance of at least
\* one whole token
C12_BalanceBounds ==
  /\ [](0 <= bucket.tokens /\ bucket.tokens <= bucket.tokens_per_minute * TicksPerToken)
  /\ [][bucket'.debited # bucket.debited =>
          /\ bucket'.debited = bucket.debited + 1
          /\ Refill(bucket).tokens >= TicksPerToken
          /\ bucket'.tokens = Refill(bucket).tokens - TicksPerToken]_vars

C12_Witness ==
  /\ bucket.debited > bucket.tokens_per_minute
  /\ 0 < bucket.tokens /\ bucket.tokens < TicksPerToken
  /\ \E c \in DOMAIN caller : caller[c].pc = "wait_lock"
  /\ \E c \in DOMAIN caller : caller[c].pc = "rl_sleep"

\* C13: whenever a run has finished, total_tokens is the sum of tokens_used
\* over the results in job.results
C13_TokenTotals ==
  \A j \in DOMAIN job :
    RunFinished(j) => job[j].total_tokens = SumTokens(job[j].results)

\* C14: every accepted run_job call returns, whether or not the gateway
\* answers the calls made for its items
C14_RunReturns ==
  \A j \in JobIds : (run[j].pc = "gather") ~> (run[j].pc = "idle")

\* execute_chain has returned
ChainReturned == chain_run.pc = "returned"

\* _execute_step was called for the step at position k (its first gateway call
\* is made in the same stretch)
Executed(k) == k \in DOMAIN step_task

HasResult(k) == \E n \in 1..Len(step_results) : step_results[n].step_id = chain.steps[k].id

\* the result recorded for the step at position k
ResultOfStep(k) ==
  step_results[CHOOSE n \in 1..Len(step_results) : step_results[n].step_id = chain.steps[k].id]

CompletedStep(k) == HasResult(k) /\ ResultOfStep(k).status = "completed"

\* every dependency of step k is the id of an earlier step recorded completed
DepsCompletedEarlier(k) ==
  \A d \in chain.steps[k].dependencies :
    \E e \in 1..(k - 1) : chain.steps[e].id = d /\ CompletedStep(e)

\* C15: in sequential mode a step is executed only if each of its dependencies
\* is an earlier step recorded completed; a step with any other dependency is
\* recorded skipped with "Dependencies not met" and never executed; and the
\* loop goes on to the end, with one result per step, in step order
C15_DependencyGating ==
  chain.execution_mode = "sequential" =>
    /\ \A n \in 1..Len(step_results) : step_results[n].step_id = chain.steps[n].id
    /\ \A k \in 1..Len(chain.steps) :
         /\ Executed(k) => DepsCompletedEarlier(k)
         /\ (HasResult(k) /\ ~DepsCompletedEarlier(k)) =>
              /\ ResultOfStep(k) = Skipped(chain.steps[k], "Dependencies not met")
              /\ ~Executed(k)
    /\ ChainReturned => Len(step_results) = Len(chain.steps)

C15_Witness ==
  /\ chain.execution_mode = "sequential" /\ ChainReturned
  /\ Len(chain.steps) = 3
  /\ chain.steps[2].dependencies = {"A"} /\ chain.steps[3].dependencies = {"B"}
  /\ step_results[1].status = "failed" /\ Executed(1) /\ step_task[1].calls = 2
  /\ step_results[2].status = "skipped" /\ step_results[3].status = "skipped"

\* C16: in every mode the result returned by execute_chain carries the results
\* of all the steps, and success is true iff every one of them is completed
C16_SuccessIffAllCompleted ==
  ChainReturned =>
    /\ chain_result.steps = step_results
    /\ \A k \in 1..Len(chain.steps) : HasResult(k)
    /\ chain_result.success <=> \A k \in 1..Len(chain.steps) : CompletedStep(k)

C16_Witness ==
  /\ ChainReturned /\ chain.execution_mode = "conditional"
  /\ Len(step_results) = 3
  /\ step_results[1].status = "completed"
  /\ step_results[2] = Skipped(chain.steps[2], "Condition not met")
  /\ step_results[3].status = "completed"
  /\ ~chain_result.success

\* the positions in the result list of the completed results
CompletedAt == {n \in 1..Len(step_results) : step_results[n].status = "completed"}

\* C17: final_output is None when no result is completed, and otherwise, for
\* the completed result that comes last in the result list, its structured
\* output if it has one and its plain output if not
C17_FinalOutput ==
  ChainReturned =>
    IF CompletedAt = {} THEN chain_result.final_output = None
    ELSE LET last == step_results[CHOOSE n \in CompletedAt : \A m \in CompletedAt : m <= n] IN
         chain_result.final_output =
           IF last.structured_output # None THEN last.structured_output ELSE last.output

C17_Witness ==
  /\ ChainReturned /\ chain.execution_mode = "parallel"
  /\ Len(step_results) = 3
  /\ step_results[1].status = "completed" /\ step_results[1].output = Str("")
  /\ step_results[2].status = "completed" /\ step_results[2].structured_output = Dict("C")
  /\ step_results[3].status = "failed" /\ step_results[3].step_id = "A"
  /\ chain_result.final_output = Dict("C")

\* the dependency level of the step at position k, in the levels that
\* _execute_parallel got from _group_by_dependency_level
LevelOf(k) ==
  CHOOSE l \in 1..Len(chain_run.levels) : k \in Range(chain_run.levels[l])

\* the value stored in the context for a completed result
Stored(result) ==
  IF result.structured_output # None THEN result.structured_output ELSE result.output

\* C18: in parallel mode, once a step has started, every step of a lower level
\* is done and recorded completed or failed, and the output of each completed
\* one was in the context, under its output key, when the step rendered its prompt
C18_LevelBarrier ==
  (chain.execution_mode = "parallel" /\ chain_run.pc # "new") =>
    \A k \in DOMAIN step_task : \A e \in 1..Len(chain.steps) :
      LevelOf(e) < LevelOf(k) =>
        /\ Executed(e) /\ step_task[e].pc = "done"
        /\ HasResult(e) /\ ResultOfStep(e).status \in {"completed", "failed"}
        /\ CompletedStep(e) =>
             /\ chain.steps[e].output_key \in DOMAIN step_task[k].rendered_with
             /\ step_task[k].rendered_with[chain.steps[e].output_key] = Stored(ResultOfStep(e))

C18_Witness ==
  /\ chain.execution_mode = "parallel" /\ chain_run.pc = "gather"
  /\ Len(chain.steps) = 3
  /\ chain.steps[3].dependencies = {"A", "B"}
  /\ Executed(1) /\ step_task[1].calls = 2 /\ step_task[1].pc = "done" /\ CompletedStep(1)
  /\ CompletedStep(2)
  /\ Executed(3) /\ step_task[3].pc = "call"
  /\ DOMAIN step_task[3].rendered_with = {"a", "b"}

\* every dependency of every step names an earlier step of the chain
DependenciesDeclaredEarlier ==
  \A k \in 1..Len(chain.steps) :
    chain.steps[k].dependencies \subseteq {chain.steps[e].id : e \in 1..(k - 1)}

\* C19: in parallel mode a step with dependencies is executed only when each
\* of them is a step recorded completed whose output was in the context, under
\* its output key, when the step rendered its prompt (stated for the chains
\* whose dependencies all name earlier steps)
C19_ParallelDependencies ==
  (chain.execution_mode = "parallel" /\ DependenciesDeclaredEarlier) =>
    \A k \in DOMAIN step_task : \A d \in chain.steps[k].dependencies :
      \E e \in 1..Len(chain.steps) :
        /\ chain.steps[e].id = d
        /\ CompletedStep(e)
        /\ chain.steps[e].output_key \in DOMAIN step_task[k].rendered_with
        /\ step_task[k].rendered_with[chain.steps[e].output_key] = Stored(ResultOfStep(e))

\* the context as the conditional loop found it at step k: the outputs stored
\* by the steps before it
ContextBefore(k) ==
  [key \in {chain.steps[e].output_key : e \in {n \in 1..(k - 1) : CompletedStep(n)}} |->
     context[key]]

\* C20: in conditional mode a step is skipped exactly when it has a condition
\* that evaluates to false against the context the loop has at that step; a
\* skipped step is recorded with "Condition not met", makes no gateway call
\* and stores nothing in the context; every other step (no condition, a true
\* condition, a condition that raises) is executed
C20_ConditionGating ==
  chain.execution_mode = "conditional" =>
    /\ DOMAIN context = {chain.steps[e].output_key : e \in {n \in 1..Len(chain.steps) : CompletedStep(n)}}
    /\ \A k \in 1..Len(chain.steps) :
         LET step == chain.steps[k]
             false == step.condition # "" /\ Eval(step.condition, ContextBefore(k)) = "false" IN
         /\ Executed(k) => ~false /\ step_task[k].rendered_with = ContextBefore(k)
         /\ HasResult(k) =>
              IF false
              THEN /\ ResultOfStep(k) = Skipped(step, "Condition not met")
                   /\ ~Executed(k)
                   /\ step.output_key \notin DOMAIN context
              ELSE Executed(k) /\ ResultOfStep(k).status \in {"completed", "failed"}

C20_Witness ==
  /\ chain.execution_mode = "conditional" /\ ChainReturned
  /\ Len(chain.steps) = 3
  /\ chain.steps[1].condition = "a" /\ Executed(1) /\ "a" \in DOMAIN context /\ context["a"] = Str("")
  /\ chain.steps[2].condition = "a" /\ ~Executed(2)
  /\ step_results[2] = Skipped(chain.steps[2], "Condition not met")
  /\ chain.steps[3].condition = "" /\ CompletedStep(3)

\* the item tasks of job j's run that ended with a COMPLETED result
CompletedTasks(tk) ==
  {i \in DOMAIN tk : tk[i].pc = "done" /\ tk[i].outcome.value.status = "completed"}

\* C25: the completed result of an item whose call succeeded after f failed
\* attempts has retry_count = f
C25_RetryCountUsed ==
  \A j \in DOMAIN job : \A i \in CompletedTasks(task[j]) :
    task[j][i].outcome.value.retry_count = task[j][i].calls - 1

\* C26: in the step in which an item's call succeeds during a run (the step
\* that builds the BatchProgress handed to the progress callback),
\* completed_items is the number of items of the job completed so far, this
\* one included, and progress is completed_items / total_items
C26_ProgressCounts ==
  [][\A j \in DOMAIN job : \A i \in DOMAIN task[j] :
       ( /\ run[j].pc = "gather" /\ task[j][i].pc = "call"
         /\ i \in CompletedTasks(task'[j]) )
       => job'[j].progress =
            <<SelectCount(job[j].results, "completed") + Cardinality(CompletedTasks(task'[j])),
              Len(job[j].items)>>]_vars

RECURSIVE SumCalls(_, _)
\* gateway calls started by the item tasks in S
SumCalls(tk, S) ==
  IF S = {} THEN 0
  ELSE LET i == CHOOSE x \in S : TRUE IN tk[i].calls + SumCalls(tk, S \ {i})

\* C28: during a run the gateway calls started, first attempts and retries
\* together, never outnumber the tokens debited from the run's TokenBucket
C28_CallsWithinTokens ==
  \A j \in DOMAIN job :
    run[j].pc = "gather" => SumCalls(task[j], DOMAIN task[j]) <= _rate_limiters[j].debited

\* C29: at most one run of a job is active: while a run of the job is
\* unfinished the job is in a status that run_job refuses, and a run_job
\* arriving then, directly or from the background task of the /run route, is
\* rejected and leaves the job, the run and its item tasks as they are, so the
\* item tasks in flight are always those of the one run
C29_OneActiveRun ==
  /\ [](\A j \in DOMAIN job :
         run[j].pc = "gather" =>
           /\ job[j].status \in {"running", "cancelled"}
           /\ DOMAIN task[j] = {run[j].pending_items[k] : k \in 1..Len(run[j].pending_items)})
  /\ [][\A j \in DOMAIN job :
         (run[j].pc = "gather" /\ last_call'.op = "run_job" /\ last_call'.id = j
            /\ last_call'.result # "returned")
         => /\ last_call'.result = "InvalidState"
            /\ UNCHANGED <<job, run, task, nruns>>]_vars

\* a run_job was rejected while the cancelled run's item tasks are in flight
C29_Witness ==
  \E j \in DOMAIN job :
    /\ run[j].pc = "gather" /\ job[j].status = "cancelled"
    /\ \E i \in DOMAIN task[j] : task[j][i].pc = "call"
    /\ last_call = Call("run_job", j, "InvalidState")

\* C30: a job is not removed from the registry while its run is executing:
\* as long as run_job has not returned from gather the job is in _jobs
C30_NoDeleteDuringRun ==
  \A j \in DOMAIN job : run[j].pc = "gather" => j \in _jobs

\* the statuses a finished run leaves the job in
TerminalStatuses == {"completed", "failed", "partial", "cancelled"}

\* run_job has returned from job j's run with a terminal status, a result for
\* every item that was pending, and the run's semaphore and bucket gone
RunResolved(j) ==
  /\ RunFinished(j)
  /\ job[j].status \in TerminalStatuses
  /\ PendingItems(job[j]) = <<>>
  /\ j \notin DOMAIN _semaphore_map
  /\ j \notin DOMAIN _rate_limiters

\* C27: when every gateway call returns and the event loop is fair, every
\* accepted run_job call returns with the job in a terminal status and every
\* pending item resolved; on the way every item task that has ended, by
\* success, failure or skip, has given its permit back
C27_RunTerminates ==
  /\ \A j \in JobIds : (run[j].pc = "gather") ~> RunResolved(j)
  /\ [](\A j \in DOMAIN job :
          run[j].pc = "gather" =>
            _semaphore_map[j] =
              job[j].config.max_concurrency
                - Cardinality({i \in DOMAIN task[j] : HoldsPermit(task[j][i])}))

\* a run that met success, failure and cancellation has returned
C27_Witness ==
  \E j \in DOMAIN job :
    /\ RunResolved(j)
    /\ job[j].status = "cancelled"
    /\ \E i \in DOMAIN task[j] : task[j][i].outcome.value.status = "completed"
    /\ \E i \in DOMAIN task[j] : task[j][i].outcome.value.status = "failed"
    /\ \E i \in DOMAIN task[j] : task[j][i].outcome.value.status = "skipped"

\* the greatest number of S, 0 for the empty set
MaxOf(S) == IF S = {} THEN 0 ELSE CHOOSE x \in S : \A y \in S : y <= x

\* the positions of the steps that the dependencies of step k name
DepPositions(k) ==
  {e \in 1..Len(chain.steps) : chain.steps[e].id \in chain.steps[k].dependencies}

RECURSIVE DepthOf(_, _)
\* the length of the longest dependency path that ends in step k, followed for
\* at most `fuel` steps; more than Len(chain.steps) on a cycle
DepthOf(k, fuel) ==
  IF fuel = 0 THEN Len(chain.steps) + 1
  ELSE 1 + MaxOf({DepthOf(e, fuel - 1) : e \in DepPositions(k)})

\* every dependency names a step of the chain and no step depends on itself
\* through any path
WellFormedAcyclic ==
  /\ \A k \in 1..Len(chain.steps) :
       chain.steps[k].dependencies \subseteq {chain.steps[e].id : e \in 1..Len(chain.steps)}
  /\ \A k \in 1..Len(chain.steps) : DepthOf(k, Len(chain.steps)) <= Len(chain.steps)

\* the ids of the steps in the levels before level l
ResolvedBefore(l) ==
  {chain.steps[k].id : k \in UNION {Range(chain_run.levels[m]) : m \in 1..(l - 1)}}

\* C24: the levels that _group_by_dependency_level returns partition the steps
\* with no level empty; in a chain whose dependencies name existing steps
\* without a cycle each step is at level 1 + the greatest level of its
\* dependencies (1 with none), the first level at which they are all in
\* earlier levels; otherwise the steps whose dependencies never resolve are
\* all in one final level, and every step is executed
C24_LevelsPartition ==
  (chain.execution_mode = "parallel" /\ chain_run.pc # "new") =>
    LET levels == chain_run.levels
        n == Len(chain.steps) IN
    /\ \A l \in 1..Len(levels) :
         /\ levels[l] # <<>>
         /\ Range(levels[l]) \subseteq 1..n
         /\ Cardinality(Range(levels[l])) = Len(levels[l])
    /\ \A k \in 1..n : Cardinality({l \in 1..Len(levels) : k \in Range(levels[l])}) = 1
    /\ WellFormedAcyclic =>
         \A k \in 1..n :
           /\ LevelOf(k) = 1 + MaxOf({LevelOf(e) : e \in DepPositions(k)})
           /\ LevelOf(k) = DepthOf(k, n)
    /\ ~WellFormedAcyclic =>
         /\ \A l \in 1..(Len(levels) - 1) : \A k \in Range(levels[l]) :
              /\ chain.steps[k].dependencies \subseteq ResolvedBefore(l)
              /\ l > 1 => ~(chain.steps[k].dependencies \subseteq ResolvedBefore(l - 1))
         /\ \A k \in Range(levels[Len(levels)]) :
              ~(chain.steps[k].dependencies \subseteq ResolvedBefore(Len(levels)))
    /\ ChainReturned => \A k \in 1..n : Executed(k) /\ HasResult(k)

\* a chain of one resolvable step and a cycle of two was grouped into two
\* levels and executed
C24_Witness ==
  /\ chain.execution_mode = "parallel" /\ ChainReturned
  /\ ~WellFormedAcyclic
  /\ Len(chain_run.levels) = 2 /\ Len(chain_run.levels[2]) = 2

\* the first n results yielded or recorded so far
ResultsBefore(n) == SubSeq(step_results, 1, n - 1)

\* C21: the results stream_execute yields are those of the sequential
\* strategy: one per step in step order, and the n-th is a skip for unmet
\* dependencies exactly when _execute_sequential, holding the same earlier
\* results, would skip the step
C21_StreamRefinesSequential ==
  chain_run.pc \in {"stream", "stream_end"} =>
    \A n \in 1..Len(step_results) :
      /\ step_results[n].step_id = chain.steps[n].id
      /\ step_results[n].status = "skipped"
           <=> ~CheckDependencies(chain.steps[n], ResultsBefore(n))

\* C22: an item of a job whose output_schema names no known schema fails
\* without retry: the failure is raised once, at attempt 0, and no backoff
\* sleep or further attempt follows, whatever retry_attempts is
C22_UnknownSchemaNotRetried ==
  \A j \in DOMAIN job : UnknownSchema(job[j].config) =>
    \A i \in DOMAIN task[j] :
      /\ task[j][i].attempt = 0
      /\ task[j][i].sleeps = <<>>
      /\ task[j][i].pc # "backoff"

\* C23: stream_progress yields its loop snapshots of a running job only, and
\* the step that emits its final snapshot (progress 1.0) is taken only when a
\* run of the job has been started and has returned, with no item task in
\* flight, also after cancel_job during the run
C23_FinalSnapshotAtCompletion ==
  /\ [](\A j \in JobIds :
          progress_stream[j].pc = "sleep" => progress_stream[j].last.status = "running")
  /\ [][\A j \in JobIds :
          ( /\ progress_stream[j].pc # "ended" /\ progress_stream'[j].pc = "ended"
            /\ progress_stream'[j].last # NoSnapshot )
          => /\ progress_stream'[j].last.progress = <<1, 1>>
             /\ RunFinished(j)
             /\ \A i \in DOMAIN task[j] : task[j][i].pc = "done"]_vars

====
